---- MODULE Spec2Model ----
(***************************************************************************)
(* Queue analyzer of an LLM inference server (package analyzer):           *)
(* NewQueueAnalyzer / BuildModel, QueueAnalyzer.Analyze, QueueAnalyzer.Size *)
(* and the evaluation functions EvalTTFT / EvalITL that Size hands to the  *)
(* root finder.                                                            *)
(*                                                                         *)
(* float32 values are modelled as binary floating-point numbers with a    *)
(* MantBits-bit significand, round-to-nearest-even after every operation, *)
(* signed zeros, +Inf, -Inf and NaN (exponent range unbounded).            *)
(***************************************************************************)
EXTENDS Integers, Sequences, FiniteSets, TLC

(***************************************************************************)
(* Floating-point arithmetic                                               *)
(***************************************************************************)

\* significand width of the modelled float type
MantBits == 11

MantLo == 2^(MantBits - 1)
MantHi == 2^MantBits

NaN == [cls |-> "nan", s |-> 1, m |-> 0, e |-> 0]
Inf(sg) == [cls |-> "inf", s |-> sg, m |-> 0, e |-> 0]
Zero(sg) == [cls |-> "fin", s |-> sg, m |-> 0, e |-> 0]

IsNaN(a) == a.cls = "nan"
IsInf(a) == a.cls = "inf"
IsZero(a) == a.cls = "fin" /\ a.m = 0
IsFinite(a) == a.cls = "fin"

RECURSIVE BitLen(_)
BitLen(n) == IF n = 0 THEN 0 ELSE 1 + BitLen(n \div 2)

\* sg * M * 2^E rounded to the nearest representable value, ties to even
Round(sg, M, E) ==
    LET sh == BitLen(M) - MantBits
    IN  IF M = 0 THEN Zero(sg)
        ELSE IF sh <= 0
             THEN [cls |-> "fin", s |-> sg, m |-> M * 2^(0 - sh), e |-> E + sh]
             ELSE LET q    == M \div 2^sh
                      r    == M % 2^sh
                      half == 2^(sh - 1)
                      up   == r > half \/ (r = half /\ q % 2 = 1)
                      q2   == IF up THEN q + 1 ELSE q
                  IN  IF q2 = MantHi
                      THEN [cls |-> "fin", s |-> sg, m |-> MantLo, e |-> E + sh + 1]
                      ELSE [cls |-> "fin", s |-> sg, m |-> q2, e |-> E + sh]

\* float32(n) for an integer n
FromInt(n) == IF n >= 0 THEN Round(1, n, 0) ELSE Round(-1, 0 - n, 0)

FNeg(a) == IF IsNaN(a) THEN NaN ELSE [a EXCEPT !.s = 0 - a.s]

FMul(a, b) ==
    IF IsNaN(a) \/ IsNaN(b) THEN NaN
    ELSE IF IsInf(a) \/ IsInf(b)
         THEN IF IsZero(a) \/ IsZero(b) THEN NaN ELSE Inf(a.s * b.s)
         ELSE IF IsZero(a) \/ IsZero(b) THEN Zero(a.s * b.s)
              ELSE Round(a.s * b.s, a.m * b.m, a.e + b.e)

FDiv(a, b) ==
    IF IsNaN(a) \/ IsNaN(b) THEN NaN
    ELSE IF IsInf(a) THEN (IF IsInf(b) THEN NaN ELSE Inf(a.s * b.s))
    ELSE IF IsInf(b) THEN Zero(a.s * b.s)
    ELSE IF IsZero(b) THEN (IF IsZero(a) THEN NaN ELSE Inf(a.s * b.s))
    ELSE IF IsZero(a) THEN Zero(a.s * b.s)
    ELSE LET num == a.m * 2^(MantBits + 2)
             q   == num \div b.m
             r   == num % b.m
         IN  Round(a.s * b.s, 2 * q + (IF r = 0 THEN 0 ELSE 1),
                   a.e - b.e - (MantBits + 2) - 1)

FAdd(a, b) ==
    IF IsNaN(a) \/ IsNaN(b) THEN NaN
    ELSE IF IsInf(a) THEN (IF IsInf(b) /\ a.s # b.s THEN NaN ELSE a)
    ELSE IF IsInf(b) THEN b
    ELSE IF IsZero(a) /\ IsZero(b) THEN (IF a.s = b.s THEN a ELSE Zero(1))
    ELSE IF IsZero(a) THEN b
    ELSE IF IsZero(b) THEN a
    ELSE LET hi == IF a.e >= b.e THEN a ELSE b
             lo == IF a.e >= b.e THEN b ELSE a
             d  == hi.e - lo.e
         IN  IF d > MantBits + 2 THEN hi
             ELSE LET v == hi.s * hi.m * 2^d + lo.s * lo.m
                  IN  IF v = 0 THEN Zero(1)
                      ELSE IF v > 0 THEN Round(1, v, lo.e)
                      ELSE Round(-1, 0 - v, lo.e)

FSub(a, b) == FAdd(a, FNeg(b))

\* sign of a - b for two values that are not NaN: -1, 0 or 1
Sgn(a, b) ==
    IF IsInf(a) THEN (IF IsInf(b) /\ a.s = b.s THEN 0 ELSE a.s)
    ELSE IF IsInf(b) THEN 0 - b.s
    ELSE IF IsZero(a) /\ IsZero(b) THEN 0
    ELSE IF IsZero(a) THEN 0 - b.s
    ELSE IF IsZero(b) THEN a.s
    ELSE IF a.s # b.s THEN a.s
    ELSE IF a.e # b.e THEN (IF a.e > b.e THEN a.s ELSE 0 - a.s)
    ELSE IF a.m = b.m THEN 0
    ELSE IF a.m > b.m THEN a.s ELSE 0 - a.s

Ordered(a, b) == ~IsNaN(a) /\ ~IsNaN(b)
FLt(a, b) == Ordered(a, b) /\ Sgn(a, b) < 0
FLe(a, b) == Ordered(a, b) /\ Sgn(a, b) <= 0
FGt(a, b) == Ordered(a, b) /\ Sgn(a, b) > 0
FGe(a, b) == Ordered(a, b) /\ Sgn(a, b) >= 0
FEq(a, b) == Ordered(a, b) /\ Sgn(a, b) = 0

\* Go's builtin min and max on floats: NaN if any argument is NaN
FMin(a, b) ==
    IF IsNaN(a) \/ IsNaN(b) THEN NaN
    ELSE IF Sgn(a, b) < 0 THEN a
    ELSE IF Sgn(a, b) > 0 THEN b
    ELSE IF a.s = -1 THEN a ELSE b

FMax(a, b) ==
    IF IsNaN(a) \/ IsNaN(b) THEN NaN
    ELSE IF Sgn(a, b) > 0 THEN a
    ELSE IF Sgn(a, b) < 0 THEN b
    ELSE IF a.s = 1 THEN a ELSE b


(***************************************************************************)
(* Constants and value objects (types.go)                                  *)
(***************************************************************************)

F0 == Zero(1)
F1 == FromInt(1)
F1000 == FromInt(1000)

\* const Epsilon = float32(0.001)
Epsilon == FDiv(F1, F1000)

\* const StabilitySafetyFraction = float32(0.1)
StabilitySafetyFraction == FDiv(F1, FromInt(10))

\* analyzer instances and the goroutines that query them
Instances == {1, 2}
Threads == {1, 2}

\* a nil pointer
Nil == 0

\* PrefillParms.PrefillTime
PrefillTime(p, avgInputTokens, batchSize) ==
    IF avgInputTokens = 0 THEN F0
    ELSE FAdd(p.Gamma, FMul(FMul(p.Delta, FromInt(avgInputTokens)), batchSize))

\* DecodeParms.DecodeTime
DecodeTime(p, batchSize) == FAdd(p.Alpha, FMul(p.Beta, batchSize))

(***************************************************************************)
(* Inputs: configurations, workloads and targets offered to the program    *)
(***************************************************************************)

Half == FDiv(F1, FromInt(2))

\* prefill {gamma=4, delta=0.5}, decode {alpha=2, beta=1}
ParmsSloped == [nil |-> FALSE,
                Prefill |-> [Gamma |-> FromInt(4), Delta |-> Half],
                Decode  |-> [Alpha |-> FromInt(2), Beta |-> F1]]

\* prefill {gamma=4, delta=0}, decode {alpha=2, beta=0}: no batch-size slope
ParmsFlat == [nil |-> FALSE,
              Prefill |-> [Gamma |-> FromInt(4), Delta |-> F0],
              Decode  |-> [Alpha |-> FromInt(2), Beta |-> F0]]

\* ServiceParms == nil
ParmsNil == [nil |-> TRUE,
             Prefill |-> [Gamma |-> F0, Delta |-> F0],
             Decode  |-> [Alpha |-> F0, Beta |-> F0]]

Cfg(maxBatchSize, maxQueueSize, parms) ==
    [MaxBatchSize |-> maxBatchSize, MaxQueueSize |-> maxQueueSize, ServiceParms |-> parms]

Req(avgInputTokens, avgOutputTokens) ==
    [AvgInputTokens |-> avgInputTokens, AvgOutputTokens |-> avgOutputTokens]

SetupSloped == <<Cfg(2, 1, ParmsSloped), Req(2, 3)>>
SetupFlat == <<Cfg(1, 0, ParmsFlat), Req(2, 3)>>

\* the (configuration, request size) pairs offered to NewQueueAnalyzer before the
\* analyzers are queried: two that pass validation, two that do not
Setups ==
    { SetupSloped, SetupFlat,
      <<Cfg(0, 1, ParmsSloped), Req(2, 3)>>,
      <<Cfg(2, 1, ParmsSloped), Req(2, 0)>> }

\* the configurations and request sizes offered to NewQueueAnalyzer when only the
\* construction is examined
WideConfigurations ==
    { Cfg(b, q, p) : b \in 0..2, q \in -1..1, p \in {ParmsSloped, ParmsFlat, ParmsNil} }

WideRequestSizes == { Req(n, o) : n \in {-1, 0, 2}, o \in {0, 1, 3} }

(***************************************************************************)
(* Validation (Configuration.check, RequestSize.check, TargetPerf.check)   *)
(***************************************************************************)

\* Configuration.check: TRUE when the configuration is accepted
ConfigurationCheck(c) ==
    ~(c.MaxBatchSize <= 0 \/ c.MaxQueueSize < 0 \/ c.ServiceParms.nil)

\* RequestSize.check: TRUE when the request size is accepted
RequestSizeCheck(rq) ==
    ~(rq.AvgInputTokens < 0 \/ rq.AvgOutputTokens < 1)

\* TargetPerf.check: TRUE when the targets are accepted
TargetPerfCheck(tp) ==
    ~(FLt(tp.TargetITL, F0) \/ FLt(tp.TargetTTFT, F0) \/ FLt(tp.TargetTPS, F0))

(***************************************************************************)
(* BuildModel                                                              *)
(***************************************************************************)

\* servRate[n-1] = float32(n) / (prefillTime + decodeTime)
ServRate(qConfig, requestSize, n) ==
    LET parms       == qConfig.ServiceParms
        prefillTime == PrefillTime(parms.Prefill, requestSize.AvgInputTokens, FromInt(n))
        decodeTime  == FMul(FromInt(requestSize.AvgOutputTokens - 1),
                            DecodeTime(parms.Decode, FromInt(n)))
    IN  FDiv(FromInt(n), FAdd(prefillTime, decodeTime))

\* queue.NewMM1ModelStateDependent(occupancyUpperBound, servRate): not yet solved
NewMM1ModelStateDependent(occupancyUpperBound, servRate) ==
    [occupancyUpperBound |-> occupancyUpperBound,
     servRate     |-> servRate,
     solved       |-> FALSE,
     lambda       |-> F0,
     valid        |-> FALSE,
     avgNumInServ |-> F0,
     avgServTime  |-> F0,
     throughput   |-> F0,
     avgRespTime  |-> F0,
     avgWaitTime  |-> F0]

\* the QueueAnalyzer BuildModel returns (its Model field is kept in model[i])
BuildModel(qConfig, requestSize) ==
    LET servRate  == [n \in 1..qConfig.MaxBatchSize |-> ServRate(qConfig, requestSize, n)]
        lambdaMin == FMul(servRate[1], Epsilon)
        lambdaMax == FMul(servRate[qConfig.MaxBatchSize], FSub(F1, Epsilon))
    IN  [built        |-> TRUE,
         err          |-> "",
         MaxBatchSize |-> qConfig.MaxBatchSize,
         MaxQueueSize |-> qConfig.MaxQueueSize,
         ServiceParms |-> qConfig.ServiceParms,
         RequestSize  |-> requestSize,
         servRate     |-> servRate,
         RateRange    |-> [Min |-> FMul(lambdaMin, F1000), Max |-> FMul(lambdaMax, F1000)]]

\* no analyzer has been built in this slot
NoAnalyzer ==
    [built        |-> FALSE,
     err          |-> "",
     MaxBatchSize |-> 0,
     MaxQueueSize |-> 0,
     ServiceParms |-> ParmsNil,
     RequestSize  |-> [AvgInputTokens |-> 0, AvgOutputTokens |-> 0],
     servRate     |-> << >>,
     RateRange    |-> [Min |-> F0, Max |-> F0]]


(***************************************************************************)
(* The queueing model (package queue) and the root finder (package utils)  *)
(***************************************************************************)

\* numerical behaviours of the solver: its averages are exact; they undershoot
\* at low rates and overshoot at high rates; the solution does not converge at
\* high rates
SolverProfiles == {"exact", "inexact", "diverging"}

\* MM1ModelStateDependent.Solve(lambda, precision): overwrites the solved
\* state of m; the result depends on m's service rates and lambda only
Solve(m, lambda, precision, prof) ==
    LET K       == Len(m.servRate)
        k       == IF FLe(lambda, m.servRate[1]) THEN 1 ELSE K
        nominal == FDiv(FromInt(k), m.servRate[k])
        serv    == IF prof # "inexact" THEN nominal
                   ELSE IF k = 1 THEN FDiv(nominal, FromInt(4))
                   ELSE FMul(nominal, FromInt(4))
        inServ  == IF prof = "inexact" /\ k = 1 THEN FNeg(FMul(lambda, serv))
                   ELSE FMul(lambda, serv)
        wait    == FMul(FDiv(lambda, m.servRate[K]), serv)
    IN  [m EXCEPT !.solved       = TRUE,
                  !.lambda       = lambda,
                  !.valid        = (prof # "diverging" \/ FLe(lambda, m.servRate[1])),
                  !.avgNumInServ = inServ,
                  !.avgServTime  = serv,
                  !.throughput   = lambda,
                  !.avgRespTime  = FAdd(wait, serv),
                  !.avgWaitTime  = wait]

\* iteration budget of utils.BinarySearch
MaxIterations == 1

\* utils.BinarySearch after the evaluation of r.x returned y: the search either
\* ends with (x, ind) or asks for the evaluation of the next point
BinarySearchNext(r, target, y) ==
    LET mid(lo, hi) == FMul(Half, FAdd(lo, hi))
    IN  CASE r.phase = "lo" ->
                [done |-> FALSE, ind |-> 0,
                 r |-> [r EXCEPT !.ylo = y, !.phase = "hi", !.x = r.hi]]
        []   r.phase = "hi" ->
                IF FLt(target, r.ylo)
                THEN [done |-> TRUE, ind |-> -1, r |-> [r EXCEPT !.x = r.lo]]
                ELSE IF FGt(target, y)
                THEN [done |-> TRUE, ind |-> 1, r |-> [r EXCEPT !.x = r.hi]]
                ELSE [done |-> FALSE, ind |-> 0,
                      r |-> [r EXCEPT !.phase = "mid", !.iter = 1,
                                      !.x = mid(r.lo, r.hi)]]
        []   OTHER ->
                IF FEq(y, target) \/ r.iter >= MaxIterations
                THEN [done |-> TRUE, ind |-> 0, r |-> r]
                ELSE LET lo == IF FLt(y, target) THEN r.x ELSE r.lo
                         hi == IF FLt(y, target) THEN r.hi ELSE r.x
                     IN  [done |-> FALSE, ind |-> 0,
                          r |-> [r EXCEPT !.lo = lo, !.hi = hi, !.iter = r.iter + 1,
                                          !.x = mid(lo, hi)]]

(***************************************************************************)
(* State                                                                   *)
(***************************************************************************)

VARIABLES
    qa,                \* the QueueAnalyzer built in each slot (immutable fields)
    model,             \* qa.Model: the queueing model of each analyzer, solved in place
    utilsModel,        \* utils.Model
    evalRequestSize,   \* package variable evalRequestSize (whose RequestSize it points to)
    evalServiceParms,  \* package variable evalServiceParms (whose ServiceParms it points to)
    evalMaxBatchSize,  \* package variable evalMaxBatchSize
    th,                \* each goroutine's position and locals in Analyze / Size
    res,               \* what each goroutine's last call returned
    ncalls,            \* number of Analyze / Size calls started
    sized,             \* successful Size calls: analyzer, targets, rates, metrics
    solver             \* numerical behaviour of the solver in this run

vars == <<qa, model, utilsModel, evalRequestSize, evalServiceParms, evalMaxBatchSize,
          th, res, ncalls, sized, solver>>

globals == <<utilsModel, evalRequestSize, evalServiceParms, evalMaxBatchSize>>

\* number of Analyze / Size calls made in a run
MaxCalls == 2

ZeroTarget == [TargetTTFT |-> F0, TargetITL |-> F0, TargetTPS |-> F0]

IdleThread ==
    [pc |-> "idle", kind |-> "none", qa |-> Nil, nested |-> FALSE,
     rate |-> F0, target |-> ZeroTarget,
     lambdaMin |-> F0, lambdaMax |-> F0,
     lambdaStarTTFT |-> F0, lambdaStarITL |-> F0, lambdaStarTPS |-> F0,
     search |-> "none", phase |-> "none", lo |-> F0, hi |-> F0, ylo |-> F0,
     x |-> F0, iter |-> 0, ind |-> 0,
     err |-> "", metrics |-> << >>, effConc |-> << >>,
     solves |-> << >>, touched |-> {}, mbSeen |-> {}, negInd |-> FALSE,
     interfered |-> FALSE, readLambda |-> << >>, prior |-> << >>]

NoResult ==
    [kind |-> "none", qa |-> Nil, rate |-> F0, target |-> ZeroTarget, err |-> "",
     metrics |-> << >>, effConc |-> << >>, targetRate |-> << >>, achieved |-> << >>,
     solves |-> << >>, touched |-> {}, mbSeen |-> {}, negInd |-> FALSE,
     interfered |-> FALSE, readLambda |-> << >>, prior |-> << >>]

Init ==
    /\ qa = [i \in Instances |-> NoAnalyzer]
    /\ model = [i \in Instances |-> NewMM1ModelStateDependent(0, << >>)]
    /\ utilsModel = Nil
    /\ evalRequestSize = Nil
    /\ evalServiceParms = Nil
    /\ evalMaxBatchSize = 0
    /\ th = [t \in Threads |-> IdleThread]
    /\ res = [t \in Threads |-> NoResult]
    /\ ncalls = 0
    /\ sized = {}
    /\ solver \in SolverProfiles


(***************************************************************************)
(* NewQueueAnalyzer                                                        *)
(***************************************************************************)

\* what NewQueueAnalyzer returns: the validation error, or the built analyzer
NewQueueAnalyzerResult(qConfig, requestSize) ==
    IF ~ConfigurationCheck(qConfig) THEN [NoAnalyzer EXCEPT !.err = "InvalidConfig"]
    ELSE IF ~RequestSizeCheck(requestSize) THEN [NoAnalyzer EXCEPT !.err = "InvalidWorkload"]
    ELSE BuildModel(qConfig, requestSize)

NewQueueAnalyzer(i, qConfig, requestSize) ==
    /\ qa[i] = NoAnalyzer
    /\ ncalls = 0
    /\ LET made == NewQueueAnalyzerResult(qConfig, requestSize)
       IN  /\ qa' = [qa EXCEPT ![i] = made]
           /\ model' = [model EXCEPT ![i] =
                  IF made.built
                  THEN NewMM1ModelStateDependent(qConfig.MaxQueueSize + qConfig.MaxBatchSize,
                                                 made.servRate)
                  ELSE model[i]]
    /\ UNCHANGED <<globals, th, res, ncalls, sized, solver>>

(***************************************************************************)
(* Returning from a call                                                   *)
(***************************************************************************)

Result(r, err, metrics, targetRate, achieved) ==
    [kind |-> r.kind, qa |-> r.qa, rate |-> r.rate, target |-> r.target, err |-> err,
     metrics |-> metrics, effConc |-> r.effConc,
     targetRate |-> targetRate, achieved |-> achieved,
     solves |-> r.solves, touched |-> r.touched, mbSeen |-> r.mbSeen,
     negInd |-> r.negInd, interfered |-> r.interfered, readLambda |-> r.readLambda,
     prior |-> r.prior]

\* thread t, whose locals are r, leaves its call with an error and nothing else
ReturnError(t, r, err) ==
    /\ th' = [th EXCEPT ![t] = IdleThread]
    /\ res' = [res EXCEPT ![t] = Result(r, err, << >>, << >>, << >>)]
    /\ UNCHANGED sized

\* Analyze returns (metrics, err) to its caller: to Size when nested in it
AnalyzeReturn(t, r, err, metrics) ==
    IF r.nested
    THEN /\ th' = [th EXCEPT ![t] = [r EXCEPT !.pc = "sz_finish", !.err = err,
                                              !.metrics = metrics]]
         /\ UNCHANGED <<res, sized>>
    ELSE /\ th' = [th EXCEPT ![t] = IdleThread]
         /\ res' = [res EXCEPT ![t] = Result(r, err, metrics, << >>, << >>)]
         /\ UNCHANGED sized

\* th after thread t, now with locals r, has solved model m: a call that solved m
\* and has not yet read it has been interfered with
AfterSolve(t, m, r) ==
    [u \in Threads |->
        IF u = t THEN r
        ELSE IF th[u].pc \in {"an_valid", "an_read"} /\ th[u].qa = m
             THEN [th[u] EXCEPT !.interfered = TRUE]
             ELSE th[u]]

(***************************************************************************)
(* QueueAnalyzer.Analyze                                                   *)
(***************************************************************************)

\* faulty variant: a rate of zero passes the first check
AnalyzeRejectsStrict(requestRate, rateRange) ==
    IF FLt(requestRate, F0) THEN "InvalidRate"
    ELSE IF FGt(requestRate, rateRange.Max) THEN "RateOutOfRange"
    ELSE ""

\* the rate checks of Analyze: the error it returns before solving, or ""
AnalyzeRejects(requestRate, rateRange) ==
    IF FLe(requestRate, F0) THEN "InvalidRate"
    ELSE IF FGt(requestRate, rateRange.Max) THEN "RateOutOfRange"
    ELSE ""

\* faulty variant: the per-second rate is handed to the model unconverted
AnalyzeLambdaUnscaled(requestRate) == requestRate

\* the arrival rate Analyze solves the model at
AnalyzeLambda(requestRate) == FDiv(requestRate, F1000)

\* faulty variant: a model that has been solved before is not solved again
SolveInPlaceOnce(m, lambda) == IF m.solved THEN m ELSE Solve(m, lambda, 1, solver)

\* model.Solve(lambda, 1) on the analyzer's model m
SolveInPlace(m, lambda) == Solve(m, lambda, 1, solver)

\* EffectiveConcurrency
EffectiveConcurrency(avgServiceTime, serviceParms, requestSize, maxBatchSize) ==
    LET tokens      == FromInt(requestSize.AvgOutputTokens - 1)
        numerator   == FSub(avgServiceTime,
                            FAdd(serviceParms.Prefill.Gamma,
                                 FMul(serviceParms.Decode.Alpha, tokens)))
        denominator == FAdd(FMul(serviceParms.Prefill.Delta,
                                 FromInt(requestSize.AvgInputTokens)),
                            FMul(serviceParms.Decode.Beta, tokens))
        n           == FDiv(numerator, denominator)
    IN  FMin(FMax(n, F0), FromInt(maxBatchSize))

\* utilization: rho = min(max(avgNumInServ / MaxBatchSize, 0), 1)
Rho(avgNumInServ, maxBatchSize) ==
    FMin(FMax(FDiv(avgNumInServ, FromInt(maxBatchSize)), F0), F1)

\* the metrics Analyze derives from the solved model m of analyzer q
AnalyzeMetrics(q, m) ==
    LET effConc == EffectiveConcurrency(m.avgServTime, q.ServiceParms, q.RequestSize,
                                        q.MaxBatchSize)
    IN  [Throughput     |-> FMul(m.throughput, F1000),
         AvgRespTime    |-> m.avgRespTime,
         AvgWaitTime    |-> m.avgWaitTime,
         AvgNumInServ   |-> m.avgNumInServ,
         AvgPrefillTime |-> PrefillTime(q.ServiceParms.Prefill,
                                        q.RequestSize.AvgInputTokens, effConc),
         AvgTokenTime   |-> DecodeTime(q.ServiceParms.Decode, effConc),
         MaxRate        |-> q.RateRange.Max,
         Rho            |-> Rho(m.avgNumInServ, q.MaxBatchSize)]

\* the request rates offered to Analyze on analyzer i
RateInputs(i) ==
    {FromInt(-1), F0, qa[i].RateRange.Max, FMul(qa[i].RateRange.Max, FromInt(2))}
        \cup {z.rate : z \in {y \in sized : y.qa = i}}

\* goroutine t calls qa[i].Analyze with one of the rates
CallAnalyze(t, i, rates) ==
    /\ th[t].pc = "idle"
    /\ ncalls < MaxCalls
    /\ qa[i].built
    /\ \E requestRate \in rates :
          th' = [th EXCEPT ![t] =
              [IdleThread EXCEPT !.pc = "an_enter", !.kind = "Analyze", !.qa = i,
                                 !.rate = requestRate,
                                 !.prior = IF model[i].solved THEN <<model[i].lambda>>
                                           ELSE << >>]]
    /\ ncalls' = ncalls + 1
    /\ UNCHANGED <<qa, model, globals, res, sized, solver>>

\* lines 55-63: the rate checks
AnalyzeEnter(t) ==
    /\ th[t].pc = "an_enter"
    /\ LET r   == th[t]
           err == AnalyzeRejects(r.rate, qa[r.qa].RateRange)
       IN  IF err # ""
           THEN AnalyzeReturn(t, r, err, << >>)
           ELSE /\ th' = [th EXCEPT ![t] = [r EXCEPT !.pc = "an_solve"]]
                /\ UNCHANGED <<res, sized>>
    /\ UNCHANGED <<qa, model, globals, ncalls, solver>>

\* line 66: model.Solve(requestRate/1000, 1)
AnalyzeSolve(t) ==
    /\ th[t].pc = "an_solve"
    /\ LET r      == th[t]
           lambda == AnalyzeLambda(r.rate)
       IN  /\ model' = [model EXCEPT ![r.qa] = SolveInPlace(model[r.qa], lambda)]
           /\ th' = AfterSolve(t, r.qa,
                       [r EXCEPT !.pc = "an_valid",
                                 !.solves = Append(r.solves,
                                     [by |-> "Analyze", model |-> r.qa, lambda |-> lambda,
                                      precision |-> 1])])
    /\ UNCHANGED <<qa, globals, res, ncalls, sized, solver>>

\* lines 67-70: model.IsValid()
AnalyzeIsValid(t) ==
    /\ th[t].pc = "an_valid"
    /\ LET r == th[t]
       IN  IF ~model[r.qa].valid
           THEN AnalyzeReturn(t, r, "ModelDivergence", << >>)
           ELSE /\ th' = [th EXCEPT ![t] = [r EXCEPT !.pc = "an_read"]]
                /\ UNCHANGED <<res, sized>>
    /\ UNCHANGED <<qa, model, globals, ncalls, solver>>

\* lines 73-93: read the solved model and return the metrics
AnalyzeRead(t) ==
    /\ th[t].pc = "an_read"
    /\ LET r == th[t]
           q == qa[r.qa]
           m == model[r.qa]
           n == EffectiveConcurrency(m.avgServTime, q.ServiceParms, q.RequestSize,
                                     q.MaxBatchSize)
       IN  AnalyzeReturn(t, [r EXCEPT !.effConc = <<n>>, !.readLambda = <<m.lambda>>],
                         "", <<AnalyzeMetrics(q, m)>>)
    /\ UNCHANGED <<qa, model, globals, ncalls, solver>>


(***************************************************************************)
(* EvalTTFT / EvalITL: the functions Size hands to the root finder         *)
(***************************************************************************)

\* EvalTTFT after Solve and IsValid: reads the solved model m through utils.Model
\* and the parameters through the package variables
EvalTTFT(m, serviceParms, requestSize, maxBatchSize) ==
    LET effConc == EffectiveConcurrency(m.avgServTime, serviceParms, requestSize,
                                        maxBatchSize)
    IN  FAdd(m.avgWaitTime,
             PrefillTime(serviceParms.Prefill, requestSize.AvgInputTokens, effConc))

\* EvalITL after Solve and IsValid
EvalITL(m, serviceParms, requestSize, maxBatchSize) ==
    LET effConc == EffectiveConcurrency(m.avgServTime, serviceParms, requestSize,
                                        maxBatchSize)
    IN  DecodeTime(serviceParms.Decode, effConc)

(***************************************************************************)
(* QueueAnalyzer.Size                                                      *)
(***************************************************************************)

\* faulty variant: the boundary indicator is not looked at
SearchErrorIgnoringInd(ind, err) == err

\* lines 128-130: the error Size holds after a search returned (ind, err)
SearchError(ind, err) ==
    IF ind < 0 THEN "TargetBelowRegion" ELSE err

\* faulty variant: the safety margin is applied whatever the TPS target
LambdaStarTPSAlways(targetTPS, lambdaMax) ==
    FMul(lambdaMax, FSub(F1, StabilitySafetyFraction))

\* lines 151-154: the rate of the TPS objective
LambdaStarTPS(targetTPS, lambdaMax) ==
    IF FGt(targetTPS, F0)
    THEN FMul(lambdaMax, FSub(F1, StabilitySafetyFraction))
    ELSE lambdaMax

\* faulty variant: the largest of the three rates is taken
MaxLambda(a, b, c) == FMax(FMax(a, b), c)

\* line 157: min(lambdaStarTTFT, lambdaStarITL, lambdaStarTPS)
MinLambda(a, b, c) == FMin(FMin(a, b), c)

\* lines 163-167
MakeTargetRate(r) ==
    [RateTargetTTFT |-> FMul(r.lambdaStarTTFT, F1000),
     RateTargetITL  |-> FMul(r.lambdaStarITL, F1000),
     RateTargetTPS  |-> FMul(r.lambdaStarTPS, F1000)]

\* lines 169-173
MakeAchieved(metrics, requestSize) ==
    [TargetTTFT |-> FAdd(metrics.AvgWaitTime, metrics.AvgPrefillTime),
     TargetITL  |-> metrics.AvgTokenTime,
     TargetTPS  |-> FMul(metrics.Throughput, FromInt(requestSize.AvgOutputTokens))]

\* the targets offered to Size
TargetInputs ==
    { ZeroTarget,
      [TargetTTFT |-> F1, TargetITL |-> F0, TargetTPS |-> F0],
      [TargetTTFT |-> F0, TargetITL |-> F1, TargetTPS |-> F0],
      [TargetTTFT |-> FromInt(8), TargetITL |-> FromInt(4), TargetTPS |-> F1],
      [TargetTTFT |-> F0, TargetITL |-> F0, TargetTPS |-> FromInt(-1)] }

\* goroutine t calls qa[i].Size with one of the targets
CallSize(t, i, targets) ==
    /\ th[t].pc = "idle"
    /\ ncalls < MaxCalls
    /\ qa[i].built
    /\ \E targetPerf \in targets :
          th' = [th EXCEPT ![t] = [IdleThread EXCEPT !.pc = "sz_enter", !.kind = "Size",
                                                      !.qa = i, !.target = targetPerf]]
    /\ ncalls' = ncalls + 1
    /\ UNCHANGED <<qa, model, globals, res, sized, solver>>

\* lines 106-114: check the targets, read the rate range
SizeEnter(t) ==
    /\ th[t].pc = "sz_enter"
    /\ LET r == th[t]
       IN  IF ~TargetPerfCheck(r.target)
           THEN ReturnError(t, r, "InvalidTarget")
           ELSE /\ th' = [th EXCEPT ![t] =
                       [r EXCEPT !.pc = "sz_set_model",
                                 !.lambdaMin = FDiv(qa[r.qa].RateRange.Min, F1000),
                                 !.lambdaMax = FDiv(qa[r.qa].RateRange.Max, F1000)]]
                /\ UNCHANGED <<res, sized>>
    /\ UNCHANGED <<qa, model, globals, ncalls, solver>>

\* faulty variant: utils.Model is assigned only while it is nil
SizeSetModelOnce(t) ==
    /\ th[t].pc = "sz_set_model"
    /\ utilsModel' = IF utilsModel = Nil THEN th[t].qa ELSE utilsModel
    /\ th' = [th EXCEPT ![t].pc = "sz_set_rs"]
    /\ UNCHANGED <<qa, model, evalRequestSize, evalServiceParms, evalMaxBatchSize,
                   res, ncalls, sized, solver>>

\* line 117: utils.Model = qa.Model
SizeSetModel(t) ==
    /\ th[t].pc = "sz_set_model"
    /\ utilsModel' = th[t].qa
    /\ th' = [th EXCEPT ![t].pc = "sz_set_rs"]
    /\ UNCHANGED <<qa, model, evalRequestSize, evalServiceParms, evalMaxBatchSize,
                   res, ncalls, sized, solver>>

\* line 118: evalRequestSize = qa.RequestSize
SizeSetRequestSize(t) ==
    /\ th[t].pc = "sz_set_rs"
    /\ evalRequestSize' = th[t].qa
    /\ th' = [th EXCEPT ![t].pc = "sz_set_sp"]
    /\ UNCHANGED <<qa, model, utilsModel, evalServiceParms, evalMaxBatchSize,
                   res, ncalls, sized, solver>>

\* line 119: evalServiceParms = qa.ServiceParms
SizeSetServiceParms(t) ==
    /\ th[t].pc = "sz_set_sp"
    /\ evalServiceParms' = th[t].qa
    /\ th' = [th EXCEPT ![t].pc = "sz_set_mb"]
    /\ UNCHANGED <<qa, model, utilsModel, evalRequestSize, evalMaxBatchSize,
                   res, ncalls, sized, solver>>

\* line 120: evalMaxBatchSize = qa.MaxBatchSize
SizeSetMaxBatchSize(t) ==
    /\ th[t].pc = "sz_set_mb"
    /\ evalMaxBatchSize' = qa[th[t].qa].MaxBatchSize
    /\ th' = [th EXCEPT ![t].pc = "sz_ttft"]
    /\ UNCHANGED <<qa, model, utilsModel, evalRequestSize, evalServiceParms,
                   res, ncalls, sized, solver>>

\* r as utils.BinarySearch(lambdaMin, lambdaMax, target, eval) starts: the first
\* point it evaluates is lambdaMin
StartSearch(r, which) ==
    [r EXCEPT !.pc = "ev_solve", !.search = which, !.phase = "lo",
              !.lo = r.lambdaMin, !.hi = r.lambdaMax, !.x = r.lambdaMin, !.iter = 0]

\* lines 125-127: the TTFT objective
SizeTTFT(t) ==
    /\ th[t].pc = "sz_ttft"
    /\ LET r == [th[t] EXCEPT !.lambdaStarTTFT = th[t].lambdaMax]
       IN  th' = [th EXCEPT ![t] =
               IF FGt(r.target.TargetTTFT, F0)
               THEN StartSearch(r, "ttft")
               ELSE [r EXCEPT !.pc = "sz_itl"]]
    /\ UNCHANGED <<qa, model, globals, res, ncalls, sized, solver>>

\* lines 138-140: the ITL objective
SizeITL(t) ==
    /\ th[t].pc = "sz_itl"
    /\ LET r == [th[t] EXCEPT !.lambdaStarITL = th[t].lambdaMax]
       IN  th' = [th EXCEPT ![t] =
               IF FGt(r.target.TargetITL, F0)
               THEN StartSearch(r, "itl")
               ELSE [r EXCEPT !.pc = "sz_tps"]]
    /\ UNCHANGED <<qa, model, globals, res, ncalls, sized, solver>>

\* lines 191 / 204: utils.Model.Solve(x, 1)
EvalSolve(t) ==
    /\ th[t].pc = "ev_solve"
    /\ LET r == th[t]
           m == utilsModel
       IN  /\ model' = [model EXCEPT ![m] = Solve(model[m], r.x, 1, solver)]
           /\ th' = AfterSolve(t, m,
                       [r EXCEPT !.pc = "ev_valid",
                                 !.touched = r.touched \cup {m},
                                 !.solves = Append(r.solves,
                                     [by |-> "Eval", model |-> m, lambda |-> r.x,
                                      precision |-> 1])])
    /\ UNCHANGED <<qa, globals, res, ncalls, sized, solver>>

\* lines 192-194 / 205-207: utils.Model.IsValid(); an invalid model ends the
\* search with the error, and Size returns it (lines 131-134 / 144-147)
EvalIsValid(t) ==
    /\ th[t].pc = "ev_valid"
    /\ LET m == utilsModel
           r == [th[t] EXCEPT !.touched = th[t].touched \cup {m}]
       IN  IF ~model[m].valid
           THEN ReturnError(t, r, SearchError(0, "ModelDivergence"))
           ELSE /\ th' = [th EXCEPT ![t] = [r EXCEPT !.pc = "ev_read"]]
                /\ UNCHANGED <<res, sized>>
    /\ UNCHANGED <<qa, model, globals, ncalls, solver>>

\* lines 195-198 / 208-209: what the function under search returns, read from the
\* solved model through utils.Model and from the package variables
EvalValue(r) ==
    IF r.search = "ttft"
    THEN EvalTTFT(model[utilsModel], qa[evalServiceParms].ServiceParms,
                  qa[evalRequestSize].RequestSize, evalMaxBatchSize)
    ELSE EvalITL(model[utilsModel], qa[evalServiceParms].ServiceParms,
                 qa[evalRequestSize].RequestSize, evalMaxBatchSize)

\* the target the running search of r looks for
EvalTarget(r) ==
    IF r.search = "ttft" THEN r.target.TargetTTFT ELSE r.target.TargetITL

\* r after its evaluation read the package variables
EvalSeen(r) ==
    [r EXCEPT !.touched = r.touched \cup {utilsModel, evalServiceParms, evalRequestSize},
              !.mbSeen = r.mbSeen \cup {evalMaxBatchSize}]

\* lines 127-135 / 140-148: Size takes the result (d.x, ind) of a search
SearchReturn(t, d, ind) ==
    IF SearchError(ind, "") # ""
    THEN ReturnError(t, d, SearchError(ind, ""))
    ELSE /\ th' = [th EXCEPT ![t] =
                IF d.search = "ttft"
                THEN [d EXCEPT !.pc = "sz_itl", !.lambdaStarTTFT = d.x]
                ELSE [d EXCEPT !.pc = "sz_tps", !.lambdaStarITL = d.x]]
         /\ UNCHANGED <<res, sized>>

\* the root finder evaluates its next point, or returns to Size
SearchGoesOn(t, nx) ==
    IF ~nx.done
    THEN /\ th' = [th EXCEPT ![t] = [nx.r EXCEPT !.pc = "ev_solve"]]
         /\ UNCHANGED <<res, sized>>
    ELSE SearchReturn(t, [nx.r EXCEPT !.ind = nx.ind,
                                      !.negInd = nx.r.negInd \/ nx.ind < 0], nx.ind)

\* the evaluation returns its value to the root finder
EvalRead(t) ==
    /\ th[t].pc = "ev_read"
    /\ SearchGoesOn(t, BinarySearchNext(EvalSeen(th[t]), EvalTarget(th[t]),
                                        EvalValue(th[t])))
    /\ UNCHANGED <<qa, model, globals, ncalls, solver>>

\* lines 151-159: the TPS objective, the smallest rate, and the call of Analyze
SizeTPS(t) ==
    /\ th[t].pc = "sz_tps"
    /\ LET r      == th[t]
           tps    == LambdaStarTPS(r.target.TargetTPS, r.lambdaMax)
           lambda == MinLambda(r.lambdaStarTTFT, r.lambdaStarITL, tps)
       IN  th' = [th EXCEPT ![t] = [r EXCEPT !.pc = "an_enter", !.nested = TRUE,
                                             !.lambdaStarTPS = tps,
                                             !.rate = FMul(lambda, F1000)]]
    /\ UNCHANGED <<qa, model, globals, res, ncalls, sized, solver>>

\* lines 159-174: Analyze returned
SizeFinish(t) ==
    /\ th[t].pc = "sz_finish"
    /\ LET r == th[t]
       IN  IF r.err # ""
           THEN ReturnError(t, r, r.err)
           ELSE /\ th' = [th EXCEPT ![t] = IdleThread]
                /\ res' = [res EXCEPT ![t] =
                       Result(r, "", r.metrics, <<MakeTargetRate(r)>>,
                              <<MakeAchieved(r.metrics[1], qa[r.qa].RequestSize)>>)]
                /\ sized' = sized \cup
                       {[qa |-> r.qa, target |-> r.target, rate |-> r.rate,
                         targetRate |-> MakeTargetRate(r), metrics |-> r.metrics[1]]}
    /\ UNCHANGED <<qa, model, globals, ncalls, solver>>

(***************************************************************************)
(* Specifications                                                          *)
(***************************************************************************)

Build ==
    \E i \in Instances : \E su \in Setups : NewQueueAnalyzer(i, su[1], su[2])

Call(t) ==
    \/ \E i \in Instances : CallAnalyze(t, i, RateInputs(i))
    \/ \E i \in Instances : CallSize(t, i, TargetInputs)

Step(t) ==
    \/ AnalyzeEnter(t) \/ AnalyzeSolve(t) \/ AnalyzeIsValid(t) \/ AnalyzeRead(t)
    \/ SizeEnter(t) \/ SizeSetModel(t) \/ SizeSetRequestSize(t)
    \/ SizeSetServiceParms(t) \/ SizeSetMaxBatchSize(t)
    \/ SizeTTFT(t) \/ SizeITL(t) \/ SizeTPS(t) \/ SizeFinish(t)
    \/ EvalSolve(t) \/ EvalIsValid(t) \/ EvalRead(t)

\* Sequential use: one goroutine builds the analyzers and then makes one call
\* after the other
Main == CHOOSE t \in Threads : \A u \in Threads : t <= u

Next ==
    \/ Build
    \/ Call(Main)
    \/ Step(Main)

Spec == Init /\ [][Next]_vars

\* Concurrent use: the analyzers have been built, and every goroutine makes one
\* call with no synchronisation between them
InitBuilt ==
    /\ qa = [i \in Instances |->
             IF i = Main THEN BuildModel(SetupSloped[1], SetupSloped[2])
             ELSE BuildModel(SetupFlat[1], SetupFlat[2])]
    /\ model = [i \in Instances |->
             NewMM1ModelStateDependent(qa[i].MaxQueueSize + qa[i].MaxBatchSize,
                                       qa[i].servRate)]
    /\ utilsModel = Nil
    /\ evalRequestSize = Nil
    /\ evalServiceParms = Nil
    /\ evalMaxBatchSize = 0
    /\ th = [t \in Threads |-> IdleThread]
    /\ res = [t \in Threads |-> NoResult]
    /\ ncalls = 0
    /\ sized = {}
    /\ solver = "exact"

\* the calls made concurrently: Analyze below and at the largest rate, Size with
\* a TTFT target inside the range
ConcRates(i) == {FMul(qa[i].RateRange.Max, Half), qa[i].RateRange.Max}

ConcTargets ==
    { [TargetTTFT |-> FromInt(8), TargetITL |-> F0, TargetTPS |-> F0] }

\* a goroutine that has not made its call yet
Fresh == {t \in Threads : th[t].pc = "idle" /\ res[t].kind = "none"}

CallConc(t) ==
    \/ \E i \in Instances : CallAnalyze(t, i, ConcRates(i))
    \/ \E i \in Instances : CallSize(t, i, ConcTargets)

NextConc ==
    \/ \E t \in Fresh : CallConc(t)
    \/ \E t \in Threads : Step(t)

SpecConc == InitBuilt /\ [][NextConc]_vars

\* Construction alone, over a wide range of configurations and request sizes
NextBuild ==
    \E i \in Instances : \E c \in WideConfigurations : \E w \in WideRequestSizes :
        NewQueueAnalyzer(i, c, w)

SpecBuild == Init /\ [][NextBuild]_vars


(***************************************************************************)
(* Properties                                                              *)
(***************************************************************************)

\* the model of analyzer i as BuildModel made it, before any Solve
FreshModel(i) ==
    NewMM1ModelStateDependent(qa[i].MaxQueueSize + qa[i].MaxBatchSize, qa[i].servRate)

\* the metrics of analyzer i at requestRate, computed on a model never solved before
MetricsAt(i, requestRate) ==
    AnalyzeMetrics(qa[i], Solve(FreshModel(i), FDiv(requestRate, F1000), 1, solver))

Succeeded(r) == r.err = "" /\ Len(r.metrics) = 1

\* C1: Analyze(rate) returns an error and no metrics, without any Solve, exactly
\* when rate <= 0 (InvalidRate) or rate > RateRange.Max (RateOutOfRange); for
\* every other rate it calls Solve(rate/1000, 1) once on its own model and, if the
\* model is valid, returns metrics.
C1_AnalyzeRateChecks ==
    \A t \in Threads :
        res[t].kind = "Analyze" =>
            LET r      == res[t]
                low    == FLe(r.rate, F0)
                high   == ~low /\ FGt(r.rate, qa[r.qa].RateRange.Max)
                lambda == FDiv(r.rate, F1000)
            IN  /\ low <=> r.err = "InvalidRate"
                /\ high <=> r.err = "RateOutOfRange"
                /\ (low \/ high) => r.metrics = << >> /\ r.solves = << >>
                /\ ~(low \/ high) =>
                      /\ r.solves = <<[by |-> "Analyze", model |-> r.qa, lambda |-> lambda,
                                       precision |-> 1]>>
                      /\ Solve(FreshModel(r.qa), lambda, 1, solver).valid => Succeeded(r)

\* C1 witness: a rate above RateRange.Max was rejected on a model solved earlier
C1_Witness ==
    \E t \in Threads :
        /\ res[t].kind = "Analyze"
        /\ res[t].err = "RateOutOfRange"
        /\ model[res[t].qa].solved

\* C2 as stated: Size with all three targets 0 evaluates the final metrics at
\* rate = RateRange.Max * (1 - StabilitySafetyFraction).
C2_ZeroTargetsUseMargin ==
    \A t \in Threads :
        (res[t].kind = "Size" /\ res[t].target = ZeroTarget /\ Succeeded(res[t])) =>
            FEq(res[t].rate,
                FMul(qa[res[t].qa].RateRange.Max, FSub(F1, StabilitySafetyFraction)))

\* C2 amended: Size with all three targets 0 applies no margin: it calls Analyze
\* at (RateRange.Max/1000)*1000, which is also each of the three rates it reports;
\* the TPS rate carries the 10% margin only when TargetTPS > 0.
C2_ZeroTargetsUseMaxRate ==
    \A t \in Threads :
        res[t].kind = "Size" =>
            LET r         == res[t]
                lambdaMax == FDiv(qa[r.qa].RateRange.Max, F1000)
                full      == FMul(lambdaMax, F1000)
                reduced   == FMul(FMul(lambdaMax, FSub(F1, StabilitySafetyFraction)), F1000)
            IN  /\ r.target = ZeroTarget => r.rate = full
                /\ (r.target = ZeroTarget /\ Succeeded(r)) =>
                      /\ r.targetRate[1] = [RateTargetTTFT |-> full, RateTargetITL |-> full,
                                            RateTargetTPS |-> full]
                      /\ r.metrics[1] = MetricsAt(r.qa, full)
                /\ Succeeded(r) =>
                      r.targetRate[1].RateTargetTPS =
                          IF FGt(r.target.TargetTPS, F0) THEN reduced ELSE full

\* C2 witness: a Size call with all targets 0 returned metrics
C2_Witness ==
    \E t \in Threads :
        res[t].kind = "Size" /\ res[t].target = ZeroTarget /\ Succeeded(res[t])

\* C3: when a search of Size returns a negative boundary indicator, Size returns
\* an error and no rates, metrics or achieved values, and never goes on to the
\* final Analyze.
C3_NegativeIndicatorFails ==
    \A t \in Threads :
        /\ ~th[t].negInd
        /\ res[t].negInd =>
              /\ res[t].err = "TargetBelowRegion"
              /\ res[t].metrics = << >>
              /\ res[t].targetRate = << >>
              /\ res[t].achieved = << >>
              /\ \A k \in 1..Len(res[t].solves) : res[t].solves[k].by = "Eval"

\* C3 witness: a TTFT search ended with a negative indicator
C3_Witness ==
    \E t \in Threads :
        res[t].negInd /\ FGt(res[t].target.TargetTTFT, F0)

\* C4: the rate Size chose is the minimum of the three rates it returned, and
\* Analyze at that rate on the same analyzer returns the metrics Size returned.
C4_SizeAnalyzeRoundTrip ==
    /\ \A z \in sized :
          /\ z.rate \in {z.targetRate.RateTargetTTFT, z.targetRate.RateTargetITL,
                         z.targetRate.RateTargetTPS}
          /\ FLe(z.rate, z.targetRate.RateTargetTTFT)
          /\ FLe(z.rate, z.targetRate.RateTargetITL)
          /\ FLe(z.rate, z.targetRate.RateTargetTPS)
    /\ \A z \in sized : \A t \in Threads :
          (res[t].kind = "Analyze" /\ Succeeded(res[t])
              /\ res[t].qa = z.qa /\ res[t].rate = z.rate)
          => res[t].metrics[1] = z.metrics

\* C4 witness: after a Size whose searches solved the model, Analyze at the
\* chosen rate returned metrics
C4_Witness ==
    \E t \in Threads : \E z \in sized :
        /\ res[t].kind = "Analyze" /\ Succeeded(res[t])
        /\ res[t].qa = z.qa /\ res[t].rate = z.rate
        /\ FGt(z.target.TargetTTFT, F0)

\* C5: a call of Analyze returns metrics of a rate other than the one it solved
\* only when another call solved the same model between its Solve and its reads;
\* the witness is such an interleaving.
C5_WrongMetricsOnlyByOverlap ==
    \A t \in Threads :
        (res[t].kind = "Analyze" /\ Succeeded(res[t])
            /\ res[t].readLambda # <<FDiv(res[t].rate, F1000)>>) => res[t].interfered

\* C5 witness: Analyze returned the metrics of a rate it was not asked about
C5_Witness ==
    \E t \in Threads :
        /\ res[t].kind = "Analyze" /\ Succeeded(res[t])
        /\ res[t].readLambda # <<FDiv(res[t].rate, F1000)>>
        /\ res[t].metrics[1] # MetricsAt(res[t].qa, res[t].rate)

\* C6: the evaluation callbacks of a Size call solve and read only the model and
\* the parameters of the analyzer whose Size invoked them, also when two Size
\* calls run concurrently on two different analyzers.
C6_EvalUsesOwnAnalyzer ==
    \A t \in Threads :
        /\ th[t].touched \subseteq {th[t].qa}
        /\ res[t].touched \subseteq {res[t].qa}
        /\ res[t].kind = "Size" => res[t].mbSeen \subseteq {qa[res[t].qa].MaxBatchSize}

\* C7: on an analyzer used sequentially the metrics a successful Analyze(rate)
\* returns are those a freshly built model gives for the rate, whatever the model
\* was solved for before; so two calls with the same rate return identical
\* metrics.
C7_AnalyzeIdempotent ==
    \A t \in Threads :
        (res[t].kind = "Analyze" /\ Succeeded(res[t])) =>
            res[t].metrics[1] = MetricsAt(res[t].qa, res[t].rate)

\* C7 witness: Analyze returned metrics on a model last solved at another rate
C7_Witness ==
    \E t \in Threads :
        /\ res[t].kind = "Analyze" /\ Succeeded(res[t])
        /\ Len(res[t].prior) = 1
        /\ res[t].prior # <<FDiv(res[t].rate, F1000)>>

\* C8: for every accepted configuration and workload the service rates are
\* non-decreasing in the batch size and RateRange.Min < RateRange.Max.
C8_RatesMonotoneRangeOrdered ==
    \A i \in Instances :
        qa[i].built =>
            /\ \A n \in 1..(qa[i].MaxBatchSize - 1) :
                  FLe(qa[i].servRate[n], qa[i].servRate[n + 1])
            /\ FLt(qa[i].RateRange.Min, qa[i].RateRange.Max)

\* C9: every successful Analyze returns 0 <= Rho <= 1 and used an effective
\* concurrency n with 0 <= n <= MaxBatchSize.
C9_RhoAndConcurrencyClamped ==
    \A t \in Threads :
        (res[t].kind = "Analyze" /\ Succeeded(res[t])) =>
            /\ FLe(F0, res[t].metrics[1].Rho) /\ FLe(res[t].metrics[1].Rho, F1)
            /\ FLe(F0, res[t].effConc[1])
            /\ FLe(res[t].effConc[1], FromInt(qa[res[t].qa].MaxBatchSize))

\* C10: in sequential use every evaluation made during Size(qa) finds the four
\* package variables set from qa.
C10_EvalSeesOwnGlobals ==
    \A t \in Threads :
        th[t].pc \in {"ev_solve", "ev_valid", "ev_read"} =>
            /\ utilsModel = th[t].qa
            /\ evalRequestSize = th[t].qa
            /\ evalServiceParms = th[t].qa
            /\ evalMaxBatchSize = qa[th[t].qa].MaxBatchSize

\* C10 witness: an evaluation of Size on one analyzer after a Size on another
\* analyzer ran its evaluations
C10_Witness ==
    \E t \in Threads :
        /\ th[t].pc = "ev_read"
        /\ res[t].kind = "Size"
        /\ res[t].qa # th[t].qa
        /\ res[t].touched # {}

====
